---- MODULE Spec2Model ----
(***************************************************************************)
(* Model of src/main.py of SmartDCA_BOT: one run of main(), the two        *)
(* classifier functions and the RSI(14) computation of                     *)
(* fetch_tw_stock_rsi.                                                     *)
(*                                                                         *)
(* Strings of the program are named by ASCII tags:                         *)
(*   ICON_RED / ICON_ORANGE / ICON_BLUE   the three circle emoji           *)
(*   TXT_EXTREME_FEAR  "ji du kong ju"    TXT_FEAR       "kong ju"         *)
(*   TXT_RSI_LOW       "RSI pian di"      TXT_SAFE_GREED "an quan/tan lan" *)
(*   HEADER_SIGNAL  "Smart DCA xun hao chu fa"                             *)
(*   HEADER_REPORT  "mei ri shi chang guan cha bao gao"                    *)
(*   CTA_ENTER      "jian yi fen pi jin chang"                             *)
(*   CTA_OBSERVE    "shi chang qing xu wen ding, qing chi xu guan cha"      *)
(* An optional value (Python None or a value) is <<>> or <<v>>.            *)
(* Prices of the closing series are integers (ticks); price statistics     *)
(* are integers in hundredths, so that 1.00 is 100.                        *)
(***************************************************************************)
EXTENDS Integers, Sequences, FiniteSets

VARIABLES
    token,              \* LINE_CHANNEL_ACCESS_TOKEN is set (truthy)
    gemini_key,         \* GEMINI_API_KEY is set (truthy)
    pc,                 \* position in main(), or in a stand-alone call
    crypto_fng,         \* main's local, optional integer
    us_stock_fng,       \* main's local, optional integer
    tw_stock_rsi,       \* main's local, optional integer
    df,                 \* what yf.download gave fetch_tw_stock_rsi
    fetch_outcome,      \* per market: how its fetch ended
    market_status_list, \* main's local: sequence of market entries
    has_buy_signal,     \* main's local
    header,             \* main's local
    message_text,       \* main's local: the sections appended so far
    ai_advice,          \* main's local, optional
    advice_outcome,     \* how generate_ai_advice ended
    status_icon,        \* last value returned by get_status_emoji
    status_text,        \* last value returned by get_status_text
    arg_value,          \* argument of a stand-alone classifier call
    arg_is_rsi,         \* argument of a stand-alone classifier call
    log,                \* what was printed, in order
    calls,              \* how many times each collaborator was called
    sent,               \* the bodies handed to messaging_api.broadcast
    result              \* "running", "returned" or "raised"

vars == <<token, gemini_key, pc, crypto_fng, us_stock_fng, tw_stock_rsi, df,
          fetch_outcome, market_status_list, has_buy_signal, header,
          message_text, ai_advice, advice_outcome, status_icon, status_text,
          arg_value, arg_is_rsi, log, calls, sent, result>>

----------------------------------------------------------------------------
(* Bounds of the model *)

\* indicator arguments of the stand-alone classifier calls: -MaxIndicator..MaxIndicator
MaxIndicator == 105
\* longest closing series handed to fetch_tw_stock_rsi
MaxLen == 16
\* a series is made of at most MaxRuns runs of equal day-over-day difference
MaxRuns == 2
\* a day-over-day difference is in -MaxStep..MaxStep
MaxStep == 1

(* Constants of the program *)

EXTREME_FEAR_THRESHOLD == 25
FEAR_THRESHOLD == 44
\* rolling(window=14)
RSI_WINDOW == 14
\* len(df) < 15
MIN_ROWS == 15

None == <<>>
Some(v) == <<v>>
Val(o) == o[1]

Markets == <<"crypto", "us", "tw">>

----------------------------------------------------------------------------
(* Pure functions *)

\* Python's round() of the rational n/d (d > 0): nearest integer, ties to even.
RoundHalfEven(n, d) ==
    LET q == n \div d
        r == n % d
    IN  IF 2 * r < d THEN q
        ELSE IF 2 * r > d THEN q + 1
        ELSE IF q % 2 = 0 THEN q ELSE q + 1

\* format_price: "N/A" for None, 8 decimals below 1, else 0 decimals with grouping.
format_price(price) ==
    IF price = None THEN [style |-> "N/A", shown |-> 0]
    ELSE IF Val(price) < 100 THEN [style |-> "fixed8", shown |-> Val(price)]
    ELSE [style |-> "grouped0", shown |-> RoundHalfEven(Val(price), 100)]

get_status_emoji_strict(value) ==
    IF value < EXTREME_FEAR_THRESHOLD THEN "ICON_RED"
    ELSE IF value < FEAR_THRESHOLD THEN "ICON_ORANGE"
    ELSE "ICON_BLUE"

get_status_emoji(value) ==
    IF value <= EXTREME_FEAR_THRESHOLD THEN "ICON_RED"
    ELSE IF value <= FEAR_THRESHOLD THEN "ICON_ORANGE"
    ELSE "ICON_BLUE"

get_status_text(value, is_rsi) ==
    IF value <= EXTREME_FEAR_THRESHOLD THEN "TXT_EXTREME_FEAR"
    ELSE IF value <= FEAR_THRESHOLD
         THEN (IF is_rsi THEN "TXT_RSI_LOW" ELSE "TXT_FEAR")
    ELSE "TXT_SAFE_GREED"

(* RSI(14) of fetch_tw_stock_rsi.  Floating-point values are nan, inf or   *)
(* the exact rational n/d.                                                 *)

Nan == [k |-> "nan", n |-> 0, d |-> 1]
Inf == [k |-> "inf", n |-> 0, d |-> 1]
Fin(n, d) == [k |-> "fin", n |-> n, d |-> d]

\* delta = df['Close'].diff(): the first element is NaN
Delta(close, i) == IF i = 1 THEN None ELSE Some(close[i] - close[i - 1])

\* delta.where(delta > 0, 0)
GainAt(close, i) ==
    LET dl == Delta(close, i)
    IN  IF dl # None /\ Val(dl) > 0 THEN Val(dl) ELSE 0

\* -delta.where(delta < 0, 0)
LossAt(close, i) ==
    LET dl == Delta(close, i)
    IN  IF dl # None /\ Val(dl) < 0 THEN 0 - Val(dl) ELSE 0

RECURSIVE SumGain(_, _, _)
SumGain(close, lo, hi) ==
    IF lo > hi THEN 0 ELSE GainAt(close, hi) + SumGain(close, lo, hi - 1)

RECURSIVE SumLoss(_, _, _)
SumLoss(close, lo, hi) ==
    IF lo > hi THEN 0 ELSE LossAt(close, hi) + SumLoss(close, lo, hi - 1)

\* .rolling(window=14).mean() at the last row, as a rational (sum, window)
RollingGain(close) ==
    LET n == Len(close)
    IN  IF n < RSI_WINDOW THEN Nan
        ELSE Fin(SumGain(close, n - RSI_WINDOW + 1, n), RSI_WINDOW)

RollingLoss(close) ==
    LET n == Len(close)
    IN  IF n < RSI_WINDOW THEN Nan
        ELSE Fin(SumLoss(close, n - RSI_WINDOW + 1, n), RSI_WINDOW)

\* rs = gain / loss in float arithmetic: x/0 is inf for x > 0 and nan for x = 0
RelativeStrength(gain, loss) ==
    IF gain.k = "nan" \/ loss.k = "nan" THEN Nan
    ELSE IF loss.n = 0 THEN (IF gain.n = 0 THEN Nan ELSE Inf)
    ELSE Fin(gain.n * loss.d, gain.d * loss.n)

\* rsi = 100 - (100 / (1 + rs))
RsiOf(rs) ==
    IF rs.k = "nan" THEN Nan
    ELSE IF rs.k = "inf" THEN Fin(100, 1)
    ELSE Fin(100 * (rs.d + rs.n) - 100 * rs.d, rs.d + rs.n)

\* int(round(current_rsi)): raises on nan and inf
IntRound(x) ==
    IF x.k = "fin" THEN Some(RoundHalfEven(x.n, x.d)) ELSE None

CurrentRsi(close) == RsiOf(RelativeStrength(RollingGain(close), RollingLoss(close)))

\* the outcome of the body of fetch_tw_stock_rsi on the downloaded frame
TwOutcome_short14(frame) ==
    IF frame.raised THEN "exception"
    ELSE IF Len(frame.Close) = 0 \/ Len(frame.Close) < RSI_WINDOW THEN "short_history"
    ELSE IF IntRound(CurrentRsi(frame.Close)) = None THEN "exception"
    ELSE "ok"

TwOutcome(frame) ==
    IF frame.raised THEN "exception"
    ELSE IF Len(frame.Close) = 0 \/ Len(frame.Close) < MIN_ROWS THEN "short_history"
    ELSE IF IntRound(CurrentRsi(frame.Close)) = None THEN "exception"
    ELSE "ok"

\* the value fetch_tw_stock_rsi returns
TwResult(frame) ==
    IF TwOutcome(frame) = "ok" THEN IntRound(CurrentRsi(frame.Close)) ELSE None

----------------------------------------------------------------------------
(* Inputs *)

Steps == (0 - MaxStep) .. MaxStep

Const(l, s) == [i \in 1..l |-> s]

\* the difference sequences of length n made of at most k runs
RECURSIVE DeltaSeqs(_, _)
DeltaSeqs(n, k) ==
    IF n = 0 THEN {<<>>}
    ELSE IF k = 0 THEN {}
    ELSE UNION {{Const(l, s) \o rest : s \in Steps, rest \in DeltaSeqs(n - l, k - 1)} :
                   l \in 1..n}

\* the closing prices with first price base and differences ds
RECURSIVE Closes(_, _)
Closes(base, ds) ==
    IF ds = <<>> THEN <<base>>
    ELSE <<base>> \o Closes(base + Head(ds), Tail(ds))

BasePrice == MaxLen * MaxStep + 1

SeriesSet ==
    {<<>>} \cup UNION {{Closes(BasePrice, ds) : ds \in DeltaSeqs(n, MaxRuns)} :
                          n \in 0..(MaxLen - 1)}

Frames == {[raised |-> TRUE, Close |-> <<>>]}
              \cup {[raised |-> FALSE, Close |-> c] : c \in SeriesSet}

NoFrame == [raised |-> FALSE, Close |-> <<>>]

----------------------------------------------------------------------------
(* What the collaborators may answer in a run of main() *)

\* alternative.me: the 'value' field parsed by int(), or any failure
CryptoResponses ==
    {[kind |-> "exception", v |-> 0]}
        \cup {[kind |-> "value", v |-> x] : x \in {10, 25, 44, 45, 90}}

\* CNN: the score in tenths, a body without 'fear_and_greed', or any failure
UsResponses ==
    {[kind |-> "exception", v |-> 0], [kind |-> "no_field", v |-> 0]}
        \cup {[kind |-> "value", v |-> x] : x \in {250, 445, 446, 500, 900}}

\* yfinance in a run of main(): a failure, too short a history, or MIN_ROWS
\* rows that rise `ups` times, fall `downs` times and then stay
Window(ups, downs) ==
    Closes(BasePrice, Const(ups, 1) \o Const(downs, 0 - 1)
                          \o Const(RSI_WINDOW - ups - downs, 0))

MainFrames ==
    {[raised |-> TRUE, Close |-> <<>>],
     [raised |-> FALSE, Close |-> Closes(BasePrice, Const(RSI_WINDOW - 1, 1))]}
        \cup {[raised |-> FALSE, Close |-> Window(w[1], w[2])] :
                 w \in {<<0, 0>>, <<0, 14>>, <<3, 7>>, <<7, 7>>, <<9, 1>>, <<14, 0>>}}

\* one year of closing prices, in hundredths
StatsSample == [current |-> 6543250, high |-> 10000050, low |-> 99]

\* ticker.history: a series, an empty frame, or any failure
StatsOutcomes == {"ok", "empty", "exception"}

----------------------------------------------------------------------------
(* The functions main() calls *)

fetch_crypto_sentiment_default(resp) ==
    IF resp.kind = "value" THEN Some(resp.v) ELSE Some(0)

fetch_crypto_sentiment(resp) ==
    IF resp.kind = "value" THEN Some(resp.v) ELSE None

\* int(round(score)); None when the field is missing or on any exception
fetch_us_stock_sentiment(resp) ==
    IF resp.kind = "value" THEN Some(RoundHalfEven(resp.v, 10)) ELSE None

fetch_price_stats(outcome) ==
    IF outcome = "ok" THEN Some(StatsSample) ELSE None

\* the indented price line of one ticker
PriceLine(ticker, stats) ==
    [ticker  |-> ticker,
     current |-> format_price(Some(stats.current)),
     high    |-> format_price(Some(stats.high)),
     low     |-> format_price(Some(stats.low))]

\* msg += ... for every ticker whose statistics are there, in order
RECURSIVE PriceLines(_, _)
PriceLines(tickers, outcomes) ==
    IF tickers = <<>> THEN <<>>
    ELSE LET st == fetch_price_stats(Head(outcomes))
         IN  (IF st # None THEN <<PriceLine(Head(tickers), Val(st))>> ELSE <<>>)
                 \o PriceLines(Tail(tickers), Tail(outcomes))

\* the errors fetch_price_stats prints
RECURSIVE PriceErrors(_)
PriceErrors(outcomes) ==
    IF outcomes = <<>> THEN <<>>
    ELSE (IF Head(outcomes) = "exception" THEN <<"ERR_PRICE">> ELSE <<>>)
             \o PriceErrors(Tail(outcomes))

\* msg of one market block
MarketEntry(market, value, is_rsi, tickers, outcomes) ==
    [market      |-> market,
     value       |-> value,
     status_text |-> get_status_text(value, is_rsi),
     status_icon |-> get_status_emoji(value),
     lines       |-> PriceLines(tickers, outcomes)]

\* `if <indicator> is not None:` guards each market block
ShouldList_onlyFear(ind) == ind # None /\ Val(ind) <= FEAR_THRESHOLD

ShouldList(ind) == ind # None

\* `if <indicator> <= FEAR_THRESHOLD:` sets has_buy_signal
Triggers_extremeOnly(value) == value <= EXTREME_FEAR_THRESHOLD

Triggers(value) == value <= FEAR_THRESHOLD

\* market_status_list.append(msg)
AppendEntry_front(list, msg) == <<msg>> \o list

AppendEntry(list, msg) == Append(list, msg)

\* where main goes after the token check: the early return is commented out
AfterTokenCheck_return(tok) == IF tok THEN "fetch_crypto" ELSE "done"

AfterTokenCheck(tok) == "fetch_crypto"

\* generate_ai_advice: what it returns, by how the call ends
\*   "no_key"    GEMINI_API_KEY is not set
\*   "exception" anything raised while configuring, prompting or reading
\*   "text"      the stripped reply
AdviceText_reraise(how) ==
    IF how = "no_key" THEN Some("FALLBACK_NO_KEY")
    ELSE IF how = "exception" THEN None
    ELSE Some("AI_TEXT")

AdviceText(how) ==
    IF how = "no_key" THEN Some("FALLBACK_NO_KEY")
    ELSE IF how = "exception" THEN Some("FALLBACK_UNAVAILABLE")
    ELSE Some("AI_TEXT")

\* how main ends after the broadcast try/except
BroadcastEnd_uncaught(how) == IF how = "error" THEN "raised" ELSE "returned"

BroadcastEnd(how) == "returned"

\* a market block: main's locals after it
\*   ind       the market's indicator
\*   outcomes  how each fetch_price_stats of the block ends
MarketBlock(market, ind, is_rsi, tickers, outcomes, next) ==
    /\ IF ShouldList(ind)
       THEN LET msg == MarketEntry(market, Val(ind), is_rsi, tickers, outcomes)
            IN  /\ status_icon' = msg.status_icon
                /\ status_text' = msg.status_text
                /\ market_status_list' = AppendEntry(market_status_list, msg)
                /\ has_buy_signal' =
                       (IF Triggers(Val(ind)) THEN TRUE ELSE has_buy_signal)
                /\ calls' = [calls EXCEPT !.stats = @ + Len(tickers)]
                /\ log' = log \o PriceErrors(outcomes)
       ELSE UNCHANGED <<status_icon, status_text, market_status_list,
                        has_buy_signal, calls, log>>
    /\ pc' = next
    /\ UNCHANGED <<token, gemini_key, crypto_fng, us_stock_fng, tw_stock_rsi,
                   df, fetch_outcome, header, message_text, ai_advice,
                   advice_outcome, arg_value, arg_is_rsi, sent, result>>

\* the outcomes a block's price fetches can have: all of them when the
\* block runs, none when the indicator is absent
OutcomesFor(ind, n) ==
    IF ind = None THEN {[i \in 1..n |-> "empty"]}
    ELSE [1..n -> StatsOutcomes]

----------------------------------------------------------------------------
(* main() *)

Init ==
    /\ token \in BOOLEAN
    /\ gemini_key \in BOOLEAN
    /\ pc = "start"
    /\ crypto_fng = None
    /\ us_stock_fng = None
    /\ tw_stock_rsi = None
    /\ df = NoFrame
    /\ fetch_outcome = [crypto |-> "pending", us |-> "pending", tw |-> "pending"]
    /\ market_status_list = <<>>
    /\ has_buy_signal = FALSE
    /\ header = "unset"
    /\ message_text = <<>>
    /\ ai_advice = None
    /\ advice_outcome = "pending"
    /\ status_icon = "unset"
    /\ status_text = "unset"
    /\ arg_value = 0
    /\ arg_is_rsi = FALSE
    /\ log = <<>>
    /\ calls = [fetch |-> 0, stats |-> 0, advice |-> 0, genai |-> 0, broadcast |-> 0]
    /\ sent = <<>>
    /\ result = "running"

\* lines 166-170
CheckToken ==
    /\ pc = "start"
    /\ log' = (IF token THEN <<>> ELSE <<"ERR_NO_TOKEN">>) \o <<"FETCHING">>
    /\ pc' = AfterTokenCheck(token)
    /\ result' = (IF pc' = "done" THEN "returned" ELSE result)
    /\ UNCHANGED <<token, gemini_key, crypto_fng, us_stock_fng, tw_stock_rsi,
                   df, fetch_outcome, market_status_list, has_buy_signal,
                   header, message_text, ai_advice, advice_outcome,
                   status_icon, status_text, arg_value, arg_is_rsi, calls, sent>>

\* line 171
FetchCrypto ==
    /\ pc = "fetch_crypto"
    /\ \E resp \in CryptoResponses :
          /\ crypto_fng' = fetch_crypto_sentiment(resp)
          /\ fetch_outcome' = [fetch_outcome EXCEPT
                 !.crypto = IF resp.kind = "value" THEN "ok" ELSE "exception"]
          /\ log' = log \o (IF resp.kind = "value" THEN <<>> ELSE <<"ERR_CRYPTO">>)
    /\ calls' = [calls EXCEPT !.fetch = @ + 1]
    /\ pc' = "fetch_us"
    /\ UNCHANGED <<token, gemini_key, us_stock_fng, tw_stock_rsi, df,
                   market_status_list, has_buy_signal, header, message_text,
                   ai_advice, advice_outcome, status_icon, status_text,
                   arg_value, arg_is_rsi, sent, result>>

\* line 172
FetchUs ==
    /\ pc = "fetch_us"
    /\ \E resp \in UsResponses :
          /\ us_stock_fng' = fetch_us_stock_sentiment(resp)
          /\ fetch_outcome' = [fetch_outcome EXCEPT
                 !.us = IF resp.kind = "value" THEN "ok" ELSE resp.kind]
          /\ log' = log \o (IF resp.kind = "exception" THEN <<"ERR_US">> ELSE <<>>)
    /\ calls' = [calls EXCEPT !.fetch = @ + 1]
    /\ pc' = "fetch_tw"
    /\ UNCHANGED <<token, gemini_key, crypto_fng, tw_stock_rsi, df,
                   market_status_list, has_buy_signal, header, message_text,
                   ai_advice, advice_outcome, status_icon, status_text,
                   arg_value, arg_is_rsi, sent, result>>

\* lines 173-177
FetchTw ==
    /\ pc = "fetch_tw"
    /\ \E frame \in MainFrames :
          /\ df' = frame
          /\ tw_stock_rsi' = TwResult(frame)
          /\ fetch_outcome' = [fetch_outcome EXCEPT !.tw = TwOutcome(frame)]
          /\ log' = log \o (IF TwOutcome(frame) = "exception"
                            THEN <<"ERR_TW">> ELSE <<>>)
                        \o <<"VALUES">>
    /\ calls' = [calls EXCEPT !.fetch = @ + 1]
    /\ pc' = "crypto_logic"
    /\ UNCHANGED <<token, gemini_key, crypto_fng, us_stock_fng,
                   market_status_list, has_buy_signal, header, message_text,
                   ai_advice, advice_outcome, status_icon, status_text,
                   arg_value, arg_is_rsi, sent, result>>

\* lines 183-200
CryptoLogic ==
    /\ pc = "crypto_logic"
    /\ \E outcomes \in OutcomesFor(crypto_fng, 2) :
          MarketBlock("crypto", crypto_fng, FALSE, <<"BTC-USD", "ETH-USD">>,
                      outcomes, "us_logic")

\* lines 202-215
UsLogic ==
    /\ pc = "us_logic"
    /\ \E outcomes \in OutcomesFor(us_stock_fng, 1) :
          MarketBlock("us", us_stock_fng, FALSE, <<"SPY">>, outcomes, "tw_logic")

\* lines 217-230
TwLogic ==
    /\ pc = "tw_logic"
    /\ \E outcomes \in OutcomesFor(tw_stock_rsi, 1) :
          MarketBlock("tw", tw_stock_rsi, TRUE, <<"0050.TW">>, outcomes, "header")

\* lines 232-240
DetermineHeader ==
    /\ pc = "header"
    /\ header' = (IF has_buy_signal THEN "HEADER_SIGNAL" ELSE "HEADER_REPORT")
    /\ message_text' = <<[section |-> "header", body |-> <<header'>>],
                         [section |-> "markets", body |-> market_status_list]>>
    /\ pc' = "advice"
    /\ UNCHANGED <<token, gemini_key, crypto_fng, us_stock_fng, tw_stock_rsi,
                   df, fetch_outcome, market_status_list, has_buy_signal,
                   ai_advice, advice_outcome, status_icon, status_text,
                   arg_value, arg_is_rsi, log, calls, sent, result>>

\* lines 242-245, with generate_ai_advice (lines 128-163)
GenerateAdvice ==
    /\ pc = "advice"
    /\ \E how \in (IF gemini_key THEN {"text", "exception"} ELSE {"no_key"}) :
          /\ advice_outcome' = how
          /\ ai_advice' = AdviceText(how)
          /\ calls' = [calls EXCEPT !.advice = @ + 1,
                                    !.genai = IF how = "no_key" THEN @ ELSE @ + 1]
          /\ log' = log \o <<"GENERATING">>
                        \o (IF how = "exception" THEN <<"ERR_AI">> ELSE <<>>)
          /\ IF ai_advice' = None
             THEN /\ result' = "raised"
                  /\ pc' = "done"
                  /\ UNCHANGED message_text
             ELSE /\ result' = result
                  /\ pc' = "closing"
                  /\ message_text' = Append(message_text,
                         [section |-> "advice", body |-> <<Val(ai_advice')>>])
    /\ UNCHANGED <<token, gemini_key, crypto_fng, us_stock_fng, tw_stock_rsi,
                   df, fetch_outcome, market_status_list, has_buy_signal,
                   header, status_icon, status_text, arg_value, arg_is_rsi, sent>>

\* lines 247-250
Closing ==
    /\ pc = "closing"
    /\ message_text' = Append(message_text,
           [section |-> "cta",
            body |-> <<IF has_buy_signal THEN "CTA_ENTER" ELSE "CTA_OBSERVE">>])
    /\ pc' = "broadcast"
    /\ UNCHANGED <<token, gemini_key, crypto_fng, us_stock_fng, tw_stock_rsi,
                   df, fetch_outcome, market_status_list, has_buy_signal,
                   header, ai_advice, advice_outcome, status_icon, status_text,
                   arg_value, arg_is_rsi, log, calls, sent, result>>

\* lines 252-270
Broadcast ==
    /\ pc = "broadcast"
    /\ IF token
       THEN \E how \in {"ok", "error"} :
               /\ calls' = [calls EXCEPT !.broadcast = @ + 1]
               /\ sent' = Append(sent, message_text)
               /\ log' = log \o <<"BROADCASTING">>
                             \o <<IF how = "ok" THEN "SENT_OK" ELSE "ERR_LINE">>
               /\ result' = BroadcastEnd(how)
       ELSE /\ log' = log \o <<"BROADCASTING", "SKIPPED">>
            /\ result' = "returned"
            /\ UNCHANGED <<calls, sent>>
    /\ pc' = "done"
    /\ UNCHANGED <<token, gemini_key, crypto_fng, us_stock_fng, tw_stock_rsi,
                   df, fetch_outcome, market_status_list, has_buy_signal,
                   header, message_text, ai_advice, advice_outcome,
                   status_icon, status_text, arg_value, arg_is_rsi>>

Next ==
    \/ CheckToken
    \/ FetchCrypto
    \/ FetchUs
    \/ FetchTw
    \/ CryptoLogic
    \/ UsLogic
    \/ TwLogic
    \/ DetermineHeader
    \/ GenerateAdvice
    \/ Closing
    \/ Broadcast

Spec == Init /\ [][Next]_vars

----------------------------------------------------------------------------
(* Stand-alone calls of the classifier functions *)

IndicatorRange == (0 - MaxIndicator) .. MaxIndicator

InitCall(at) ==
    /\ token = FALSE
    /\ gemini_key = FALSE
    /\ pc = at
    /\ crypto_fng = None
    /\ us_stock_fng = None
    /\ tw_stock_rsi = None
    /\ df = NoFrame
    /\ fetch_outcome = [crypto |-> "pending", us |-> "pending", tw |-> "pending"]
    /\ market_status_list = <<>>
    /\ has_buy_signal = FALSE
    /\ header = "unset"
    /\ message_text = <<>>
    /\ ai_advice = None
    /\ advice_outcome = "pending"
    /\ status_icon = "unset"
    /\ status_text = "unset"
    /\ arg_value = 0
    /\ arg_is_rsi = FALSE
    /\ log = <<>>
    /\ calls = [fetch |-> 0, stats |-> 0, advice |-> 0, genai |-> 0, broadcast |-> 0]
    /\ sent = <<>>
    /\ result = "running"

InitClassify == InitCall("classify_call")

\* get_status_emoji(value) and get_status_text(value, is_rsi) on one value
ClassifyCall ==
    /\ pc = "classify_call"
    /\ \E v \in IndicatorRange, r \in BOOLEAN :
          /\ arg_value' = v
          /\ arg_is_rsi' = r
          /\ status_icon' = get_status_emoji(v)
          /\ status_text' = get_status_text(v, r)
    /\ pc' = "classify_done"
    /\ UNCHANGED <<token, gemini_key, crypto_fng, us_stock_fng, tw_stock_rsi,
                   df, fetch_outcome, market_status_list, has_buy_signal,
                   header, message_text, ai_advice, advice_outcome, log,
                   calls, sent, result>>

NextClassify == ClassifyCall

SpecClassify == InitClassify /\ [][NextClassify]_vars

(* A stand-alone call of fetch_tw_stock_rsi *)

InitRsi == InitCall("rsi_call")

RsiCall ==
    /\ pc = "rsi_call"
    /\ \E frame \in Frames :
          /\ df' = frame
          /\ tw_stock_rsi' = TwResult(frame)
          /\ fetch_outcome' = [fetch_outcome EXCEPT !.tw = TwOutcome(frame)]
          /\ log' = log \o (IF TwOutcome(frame) = "exception"
                            THEN <<"ERR_TW">> ELSE <<>>)
    /\ calls' = [calls EXCEPT !.fetch = @ + 1]
    /\ pc' = "rsi_done"
    /\ UNCHANGED <<token, gemini_key, crypto_fng, us_stock_fng,
                   market_status_list, has_buy_signal, header, message_text,
                   ai_advice, advice_outcome, status_icon, status_text,
                   arg_value, arg_is_rsi, sent, result>>

NextRsi == RsiCall

SpecRsi == InitRsi /\ [][NextRsi]_vars

----------------------------------------------------------------------------
(* Vocabulary of the properties *)

MarketSet == {Markets[i] : i \in DOMAIN Markets}

\* position of a market in the fixed order crypto, US, TW
Rank(m) == CHOOSE i \in DOMAIN Markets : Markets[i] = m

Indicator(m) ==
    IF m = "crypto" THEN crypto_fng
    ELSE IF m = "us" THEN us_stock_fng
    ELSE tw_stock_rsi

\* the class an emoji stands for (the comments of get_status_emoji)
IconClass(icon) ==
    IF icon = "ICON_RED" THEN "ExtremeFear"
    ELSE IF icon = "ICON_ORANGE" THEN "Fear"
    ELSE IF icon = "ICON_BLUE" THEN "NeutralOrGreed"
    ELSE "none"

\* the class a status text stands for
TextClass(text) ==
    IF text = "TXT_EXTREME_FEAR" THEN "ExtremeFear"
    ELSE IF text \in {"TXT_FEAR", "TXT_RSI_LOW"} THEN "Fear"
    ELSE IF text = "TXT_SAFE_GREED" THEN "NeutralOrGreed"
    ELSE "none"

Listed == {market_status_list[i].market : i \in DOMAIN market_status_list}

EntriesOf(m) == {i \in DOMAIN market_status_list : market_status_list[i].market = m}

\* main is past its three market blocks
BlocksDone == pc \in {"header", "advice", "closing", "broadcast", "done"}

\* main has chosen its header
HeaderDone == pc \in {"advice", "closing", "broadcast", "done"}

\* main has appended its closing line
MessageDone == pc \in {"broadcast", "done"} /\ Len(message_text) = 4

Failed(m) == fetch_outcome[m] \in {"exception", "no_field", "short_history"}

Printed(tag) == \E i \in DOMAIN log : log[i] = tag

SectionNames == [i \in DOMAIN message_text |-> message_text[i].section]

\* the trailing RSI_WINDOW day-over-day differences of a series of >= MIN_ROWS rows
Trailing(close) ==
    {close[i] - close[i - 1] : i \in (Len(close) - RSI_WINDOW + 1) .. Len(close)}

----------------------------------------------------------------------------
(* C1: for every integer v the class is ExtremeFear iff v <= 25, Fear iff  *)
(* 25 < v <= 44 and NeutralOrGreed iff v > 44, and get_status_emoji(v) and *)
(* get_status_text(v, is_rsi) pick the same class, for either is_rsi.      *)
C1_Classification ==
    pc = "classify_done" =>
        /\ (IconClass(status_icon) = "ExtremeFear") <=> (arg_value <= 25)
        /\ (IconClass(status_icon) = "Fear") <=> (25 < arg_value /\ arg_value <= 44)
        /\ (IconClass(status_icon) = "NeutralOrGreed") <=> (arg_value > 44)
        /\ TextClass(status_text) = IconClass(status_icon)

C1_Witness ==
    /\ pc = "classify_done"
    /\ arg_value = 44
    /\ arg_is_rsi
    /\ status_icon = "ICON_ORANGE"
    /\ status_text = "TXT_RSI_LOW"

(* C2, as claimed: market_status_list holds an entry for a market iff the  *)
(* market's indicator is present and <= 44.                                *)
C2_Original ==
    BlocksDone =>
        \A m \in MarketSet :
            (m \in Listed) <=> (Indicator(m) # None /\ Val(Indicator(m)) <= 44)

(* C2, amended: market_status_list holds an entry for a market iff the     *)
(* market's indicator is present, whatever its value.                      *)
C2_ListedIffPresent ==
    BlocksDone => \A m \in MarketSet : (m \in Listed) <=> (Indicator(m) # None)

C2_Witness ==
    /\ BlocksDone
    /\ crypto_fng = Some(10)
    /\ us_stock_fng = Some(50)
    /\ tw_stock_rsi = Some(90)
    /\ Listed = MarketSet

(* C3: when main selects the header, has_buy_signal is true iff at least   *)
(* one indicator is present and <= 44; the signal header and the 'enter in *)
(* batches' line are used exactly when it is true, the report header and   *)
(* the 'keep observing' line exactly when it is false.                     *)
C3_SignalHeaderClosing ==
    /\ BlocksDone =>
           (has_buy_signal <=>
               \E m \in MarketSet : Indicator(m) # None /\ Val(Indicator(m)) <= 44)
    /\ HeaderDone =>
           /\ (header = "HEADER_SIGNAL") <=> has_buy_signal
           /\ (header = "HEADER_REPORT") <=> ~has_buy_signal
           /\ message_text[1] = [section |-> "header", body |-> <<header>>]
    /\ MessageDone =>
           /\ (message_text[4].body = <<"CTA_ENTER">>) <=> has_buy_signal
           /\ (message_text[4].body = <<"CTA_OBSERVE">>) <=> ~has_buy_signal

C3_Witness ==
    /\ MessageDone
    /\ crypto_fng = None
    /\ us_stock_fng = Some(45)
    /\ tw_stock_rsi = Some(30)
    /\ has_buy_signal
    /\ header = "HEADER_SIGNAL"

(* C4, as claimed: with the token absent main reports the missing          *)
(* credential and returns early: no market-data fetch, no advisory call    *)
(* and no broadcast attempt follow the report.                             *)
C4_Original ==
    (~token /\ pc # "start") =>
        /\ Printed("ERR_NO_TOKEN")
        /\ calls.fetch = 0
        /\ calls.stats = 0
        /\ calls.advice = 0
        /\ calls.genai = 0
        /\ calls.broadcast = 0

(* C4, amended: with the token absent main reports the missing credential  *)
(* and goes on without crashing: it makes the three market-data fetches    *)
(* and the advisory step, makes no broadcast attempt, prints that the      *)
(* broadcast was skipped and returns normally.                             *)
C4_ReportsAndContinues ==
    ~token =>
        /\ pc # "start" => log[1] = "ERR_NO_TOKEN"
        /\ calls.broadcast = 0
        /\ sent = <<>>
        /\ result # "raised"
        /\ pc = "done" =>
               /\ calls.fetch = 3
               /\ calls.advice = 1
               /\ log[Len(log)] = "SKIPPED"
               /\ result = "returned"

C4_Witness ==
    /\ ~token
    /\ pc = "done"
    /\ calls.fetch = 3
    /\ calls.genai = 1
    /\ Printed("SKIPPED")

(* C5: a market whose fetch fails has an absent indicator and no entry;    *)
(* the entry and the trigger decision of every other market depend on that *)
(* market's own indicator only; and the run goes on to the advisory step   *)
(* and the notifier step, for every subset of failing fetches.             *)
C5_FetchFailureIsolated ==
    /\ \A m \in MarketSet : Failed(m) => Indicator(m) = None
    /\ BlocksDone =>
           \A m \in MarketSet :
               /\ Failed(m) => EntriesOf(m) = {}
               /\ fetch_outcome[m] = "ok" =>
                      /\ Cardinality(EntriesOf(m)) = 1
                      /\ \A i \in EntriesOf(m) :
                            LET e == market_status_list[i]
                            IN  /\ e.value = Val(Indicator(m))
                                /\ IconClass(e.status_icon) = TextClass(e.status_text)
                                /\ (IconClass(e.status_icon) \in {"ExtremeFear", "Fear"})
                                       <=> (e.value <= 44)
    /\ BlocksDone =>
           (has_buy_signal <=>
               \E m \in MarketSet : fetch_outcome[m] = "ok" /\ Val(Indicator(m)) <= 44)
    /\ result # "raised"
    /\ pc = "done" => (calls.advice = 1 /\ Printed("BROADCASTING"))

C5_Witness ==
    /\ pc = "done"
    /\ \A m \in MarketSet : Failed(m)
    /\ fetch_outcome.us = "no_field"
    /\ fetch_outcome.tw = "short_history"
    /\ market_status_list = <<>>
    /\ calls.advice = 1
    /\ Printed("BROADCASTING")

(* C6: when the advisory call fails (no API key, or any exception)         *)
(* generate_ai_advice returns a fixed fallback string, main assembles      *)
(* header, market blocks, advisory block with the fallback, closing line   *)
(* in this order, and reaches the broadcast step with that message.        *)
C6_AdviceFallback ==
    /\ advice_outcome = "no_key" => ai_advice = Some("FALLBACK_NO_KEY")
    /\ advice_outcome = "exception" => ai_advice = Some("FALLBACK_UNAVAILABLE")
    /\ advice_outcome \in {"no_key", "exception"} =>
           /\ result # "raised"
           /\ pc \in {"closing", "broadcast", "done"}
           /\ pc \in {"broadcast", "done"} =>
                  /\ SectionNames = <<"header", "markets", "advice", "cta">>
                  /\ message_text[2].body = market_status_list
                  /\ message_text[3].body = ai_advice
           /\ pc = "done" =>
                  /\ Printed("BROADCASTING")
                  /\ token => sent = <<message_text>>

C6_Witness ==
    /\ pc = "done"
    /\ advice_outcome = "exception"
    /\ token
    /\ Len(sent) = 1
    /\ sent[1][3].body = <<"FALLBACK_UNAVAILABLE">>

(* C7: the market entries always appear in the order crypto, US, TW, for   *)
(* every subset of markets that has an entry; none is duplicated.          *)
C7_FixedOrder ==
    /\ \A i, j \in DOMAIN market_status_list :
          i < j => Rank(market_status_list[i].market)
                       < Rank(market_status_list[j].market)
    /\ HeaderDone => message_text[2].body = market_status_list

C7_Witness ==
    /\ pc = "done"
    /\ Len(market_status_list) = 2
    /\ market_status_list[1].market = "crypto"
    /\ market_status_list[2].market = "tw"
    /\ fetch_outcome.us = "exception"

(* C8: with the token present exactly one broadcast attempt is made, after *)
(* all fetches and the advisory step; a failed attempt is not retried, is  *)
(* logged, and main ends normally as it does after a successful one.       *)
C8_OneBroadcast ==
    token =>
        /\ calls.broadcast <= 1
        /\ Len(sent) = calls.broadcast
        /\ result # "raised"
        /\ calls.broadcast = 1 =>
               /\ calls.fetch = 3
               /\ \A m \in MarketSet : fetch_outcome[m] # "pending"
               /\ calls.advice = 1
               /\ ai_advice # None
        /\ pc = "done" =>
               /\ calls.broadcast = 1
               /\ result = "returned"
               /\ log[Len(log)] \in {"SENT_OK", "ERR_LINE"}

C8_Witness ==
    /\ token
    /\ pc = "done"
    /\ log[Len(log)] = "ERR_LINE"
    /\ calls.broadcast = 1
    /\ result = "returned"

(* C9: for every series of at least 15 closing prices whose trailing 14    *)
(* differences contain no negative difference, among them a series whose   *)
(* last 15 prices are all equal, fetch_tw_stock_rsi returns 100.           *)
C9_NoLossIs100 ==
    (/\ pc = "rsi_done"
     /\ ~df.raised
     /\ Len(df.Close) >= 15
     /\ \A x \in Trailing(df.Close) : x >= 0)
        => tw_stock_rsi = Some(100)

(* C10: for every series of at least 15 closing prices whose last 15       *)
(* prices are strictly decreasing fetch_tw_stock_rsi returns 0, and for    *)
(* every series of fewer than 15 prices, or none, it returns None.         *)
C10_FallIs0ShortIsNone ==
    (pc = "rsi_done" /\ ~df.raised) =>
        /\ (Len(df.Close) >= 15 /\ \A x \in Trailing(df.Close) : x < 0)
               => tw_stock_rsi = Some(0)
        /\ Len(df.Close) < 15 => tw_stock_rsi = None

C10_Witness ==
    /\ pc = "rsi_done"
    /\ ~df.raised
    /\ Len(df.Close) = 16
    /\ df.Close[2] > df.Close[1]
    /\ \A x \in Trailing(df.Close) : x < 0
    /\ tw_stock_rsi = Some(0)

====
